---- MODULE Spec2Model ----
(***************************************************************************)
(* State-machine model of the e-learning REST backend: the user/session    *)
(* handlers (signup, login, logout, profile), the auth middleware          *)
(* (authenticateToken, authorizeRoles), the in-memory token blacklist and  *)
(* the Course / Lesson / Topic route handlers.                             *)
(*                                                                         *)
(* Every HTTP request is one action (the middleware chain and the handler  *)
(* together), except signup, whose lookup and save are two awaited store   *)
(* calls that other requests can interleave with.  The repository holds    *)
(* two signup controllers; both are modelled (Variants).                   *)
(*                                                                         *)
(* Specifications:                                                         *)
(*   Spec         signup, login, both logout handlers, profile, the clock  *)
(*   SpecUsers    signups and admin user creation racing on two emails     *)
(*   SpecContent  the course, lesson, topic and user admin routes          *)
(*   SpecTopics   lesson and topic routes, topic creation in two writes,   *)
(*                with requests interleaved and the process stopping       *)
(*   SpecGate     the auth gate against every blacklist, clock and store,  *)
(*                its two stages on their own, and a process restart       *)
(*                                                                         *)
(* The clock counts half-hours, so the "1h" token lifetime is 2 ticks.     *)
(* The User schema (models/User) is not part of the sources read here: its *)
(* hashing, unique index and role default follow the written design.       *)
(***************************************************************************)
EXTENDS Integers, Sequences, FiniteSets, TLC

\* ------------------------------------------------------------------ bounds
MaxTime == 3
MaxTokens == 2
MaxInflight == 2
MaxRouteBlacklist == 1
MaxBlacklist == 2
MaxDocs == 2

\* ------------------------------------------------------- program constants
\* jwt.sign(..., { expiresIn: "1h" }), in half-hour ticks
ExpiresIn == 2

\* --------------------------------------------------------------- universes
Undefined == "undefined"
NoneRec == [none |-> TRUE]

Emails == {"a@x.com", "b@x.com"}
Names == {"A"}
Passwords == {"p1"}
BodyRoles == {Undefined, "admin"}

\* req.body of POST /signup and POST /users
UserBodies == [name : Names, email : Emails, password : Passwords, role : BodyRoles]

VARIABLES
    users,               \* the User collection (persisted)
    nextId,              \* next ObjectId the store hands out
    tokenBlacklist,      \* utils/tokenBlacklist: the Set the middleware reads
    routeTokenBlacklist, \* the array declared in the user routes file
    now,                 \* wall clock, in half-hours
    tokens,              \* tokens handed to clients so far
    inflight,            \* signup requests between their lookup and their save
    courses,             \* the Course collection (persisted)
    lessons,             \* the Lesson collection (persisted)
    topics,              \* the Topic collection (persisted)
    nextCourseId,        \* next ObjectId of a Course
    nextLessonId,        \* next ObjectId of a Lesson
    nextTopicId,         \* next ObjectId of a Topic
    res                  \* the response to the request handled last

userVars == <<users, nextId>>
sessionVars == <<tokenBlacklist, routeTokenBlacklist, now, tokens, inflight>>
contentVars == <<courses, lessons, topics, nextCourseId, nextLessonId, nextTopicId>>

vars == <<users, nextId, tokenBlacklist, routeTokenBlacklist, now, tokens, inflight,
          courses, lessons, topics, nextCourseId, nextLessonId, nextTopicId, res>>

\* ----------------------------------------------------------- token service
\* jwt.sign({ id, role }, JWT_SECRET, { expiresIn: "1h" })
jwtSign(id, role) ==
    [id |-> id, role |-> role, iat |-> now, exp |-> now + ExpiresIn, sig |-> "ok"]

\* jwt.verify(token, JWT_SECRET): throws on a bad signature or a malformed
\* token, and on an expired one (now >= exp)
jwtVerify_expiredAtExp(token) ==
    /\ token.sig = "ok"
    /\ now <= token.exp

jwtVerify(token) ==
    /\ token.sig = "ok"
    /\ now < token.exp

\* what a client can put after "Bearer": a token it was given, or the same
\* claims under a signature that does not verify
Forge(t) == [t EXCEPT !.sig = "bad"]
Presentable == tokens \cup {Forge(t) : t \in tokens}

\* the Authorization header, split on ' '
Headers == {<<>>, <<"Bearer">>} \cup {<<"Bearer", t>> : t \in Presentable}

\* authHeader && authHeader.split(' ')[1]
TokenOf(hdr) == IF Len(hdr) >= 2 THEN hdr[2] ELSE NoneRec

\* ---------------------------------------------------------- blacklist store
isBlacklisted_never(token) == FALSE

\* tokenBlacklist.isBlacklisted(token)
isBlacklisted(token) == token \in tokenBlacklist

\* ------------------------------------------------------------ user store
findById(id) ==
    IF \E u \in users : u.id = id
    THEN CHOOSE u \in users : u.id = id
    ELSE NoneRec

findOneByEmail(email) ==
    IF \E u \in users : u.email = email
    THEN CHOOSE u \in users : u.email = email
    ELSE NoneRec

\* the User schema's pre-save hook: the credential is stored hashed
HashPassword(p) == <<"hash", p>>

comparePassword(user, p) == user.password = HashPassword(p)

\* the User schema's unique index on email: save() of a document whose email
\* is already stored throws a duplicate-key error
SaveRejected(doc) == \E u \in users : u.email = doc.email

\* the User schema's role path: 'user' when the document holds none
SchemaRole(role) == IF role = Undefined THEN "user" ELSE role

\* new User({ name, email, password, role, ... }); _id is assigned here
NewUser(body, role) ==
    [id |-> nextId, name |-> body.name, email |-> body.email,
     password |-> HashPassword(body.password),
     role |-> SchemaRole(role)]

\* ------------------------------------------------------------- auth gate
authenticateToken_verifyFirst(hdr) ==
    LET token == TokenOf(hdr) IN
    IF token = NoneRec
    THEN [pass |-> FALSE, status |-> 401, msg |-> "Access denied. No token provided.", user |-> NoneRec]
    ELSE IF ~jwtVerify(token)
    THEN [pass |-> FALSE, status |-> 403, msg |-> "Invalid token.", user |-> NoneRec]
    ELSE IF isBlacklisted(token)
    THEN [pass |-> FALSE, status |-> 403, msg |-> "Token is blacklisted. Please log in again.", user |-> NoneRec]
    ELSE IF findById(token.id) = NoneRec
    THEN [pass |-> FALSE, status |-> 404, msg |-> "User not found.", user |-> NoneRec]
    ELSE [pass |-> TRUE, status |-> 0, msg |-> "", user |-> findById(token.id)]

authenticateToken_trustsClaim(hdr) ==
    LET token == TokenOf(hdr) IN
    IF token = NoneRec
    THEN [pass |-> FALSE, status |-> 401, msg |-> "Access denied. No token provided.", user |-> NoneRec]
    ELSE IF isBlacklisted(token)
    THEN [pass |-> FALSE, status |-> 403, msg |-> "Token is blacklisted. Please log in again.", user |-> NoneRec]
    ELSE IF ~jwtVerify(token)
    THEN [pass |-> FALSE, status |-> 403, msg |-> "Invalid token.", user |-> NoneRec]
    ELSE IF findById(token.id) = NoneRec
    THEN [pass |-> FALSE, status |-> 404, msg |-> "User not found.", user |-> NoneRec]
    ELSE [pass |-> TRUE, status |-> 0, msg |-> "",
          user |-> [findById(token.id) EXCEPT !.role = token.role]]

authenticateToken(hdr) ==
    LET token == TokenOf(hdr) IN
    IF token = NoneRec
    THEN [pass |-> FALSE, status |-> 401, msg |-> "Access denied. No token provided.", user |-> NoneRec]
    ELSE IF isBlacklisted(token)
    THEN [pass |-> FALSE, status |-> 403, msg |-> "Token is blacklisted. Please log in again.", user |-> NoneRec]
    ELSE IF ~jwtVerify(token)
    THEN [pass |-> FALSE, status |-> 403, msg |-> "Invalid token.", user |-> NoneRec]
    ELSE IF findById(token.id) = NoneRec
    THEN [pass |-> FALSE, status |-> 404, msg |-> "User not found.", user |-> NoneRec]
    ELSE [pass |-> TRUE, status |-> 0, msg |-> "", user |-> findById(token.id)]

authorizeRoles_any(roles, user) == TRUE

authorizeRoles(roles, user) == user.role \in roles

\* the middleware chain in front of a handler: authenticateToken, then
\* authorizeRoles(...roles) when the route has one (roles = {} when not)
Gate(hdr, roles) ==
    LET a == authenticateToken(hdr) IN
    IF ~a.pass THEN a
    ELSE IF roles # {} /\ ~authorizeRoles(roles, a.user)
    THEN [pass |-> FALSE, status |-> 403, msg |-> "Access denied. Insufficient permissions.", user |-> a.user]
    ELSE a

\* --------------------------------------------------------------- responses
Response(op, hdr, req, status, msg, body) ==
    [op |-> op, hdr |-> hdr, req |-> req, status |-> status, msg |-> msg, body |-> body]

NoResponse == Response("none", <<>>, NoneRec, 0, "", NoneRec)

Denied(op, hdr, g) == Response(op, hdr, NoneRec, g.status, g.msg, NoneRec)

Init ==
    /\ users = {}
    /\ nextId = 1
    /\ tokenBlacklist = {}
    /\ routeTokenBlacklist = <<>>
    /\ now = 0
    /\ tokens = {}
    /\ inflight = {}
    /\ courses = {}
    /\ lessons = {}
    /\ topics = {}
    /\ nextCourseId = 1
    /\ nextLessonId = 1
    /\ nextTopicId = 1
    /\ res = NoResponse

\* ------------------------------------------------------------ user handlers
\* POST /signup, up to `await User.findOne({ email })`
signupFind(variant, body) ==
    /\ Cardinality(inflight) < MaxInflight
    /\ IF findOneByEmail(body.email) # NoneRec
       THEN /\ res' = Response("signup", <<>>, body, 400, "User already exists", NoneRec)
            /\ UNCHANGED inflight
       ELSE /\ inflight' = inflight \cup {[variant |-> variant, body |-> body]}
            /\ res' = NoResponse
    /\ UNCHANGED <<users, nextId, tokenBlacklist, routeTokenBlacklist, now, tokens, contentVars>>

\* the token a signup response carries: the evolved controller signs one,
\* the controller in controllers/userController.js sends none
signupToken(variant, newUser) ==
    IF variant = "evolved" THEN jwtSign(newUser.id, newUser.role) ELSE NoneRec

signupSave_ignoresRejection(p) ==
    /\ p \in inflight
    /\ LET body == p.body
           newUser == NewUser(body, IF body.role = Undefined THEN "user" ELSE body.role)
           token == signupToken(p.variant, newUser)
       IN /\ token = NoneRec \/ token \in tokens \/ Cardinality(tokens) < MaxTokens
          /\ users' = users \cup {newUser}
          /\ nextId' = nextId + 1
          /\ tokens' = IF token = NoneRec THEN tokens ELSE tokens \cup {token}
          /\ res' = Response("signup", <<>>, body, 201, "User created successfully",
                             [user |-> newUser, token |-> token])
    /\ inflight' = inflight \ {p}
    /\ UNCHANGED <<tokenBlacklist, routeTokenBlacklist, now, contentVars>>

signupSave_plainUser(p) ==
    /\ p \in inflight
    /\ LET body == p.body
           newUser == NewUser(body, "user")
           token == signupToken(p.variant, newUser)
       IN IF SaveRejected(newUser)
          THEN /\ res' = Response("signup", <<>>, body, 400, "duplicate key", NoneRec)
               /\ UNCHANGED <<users, nextId, tokens>>
          ELSE /\ token = NoneRec \/ token \in tokens \/ Cardinality(tokens) < MaxTokens
               /\ users' = users \cup {newUser}
               /\ nextId' = nextId + 1
               /\ tokens' = IF token = NoneRec THEN tokens ELSE tokens \cup {token}
               /\ res' = Response("signup", <<>>, body, 201, "User created successfully",
                                  [user |-> newUser, token |-> token])
    /\ inflight' = inflight \ {p}
    /\ UNCHANGED <<tokenBlacklist, routeTokenBlacklist, now, contentVars>>

\* POST /signup, from `await user.save()` to the response
signupSave(p) ==
    /\ p \in inflight
    /\ LET body == p.body
           newUser == NewUser(body, IF body.role = Undefined THEN "user" ELSE body.role)
           token == signupToken(p.variant, newUser)
       IN IF SaveRejected(newUser)
          THEN /\ res' = Response("signup", <<>>, body, 400, "duplicate key", NoneRec)
               /\ UNCHANGED <<users, nextId, tokens>>
          ELSE /\ token = NoneRec \/ token \in tokens \/ Cardinality(tokens) < MaxTokens
               /\ users' = users \cup {newUser}
               /\ nextId' = nextId + 1
               /\ tokens' = IF token = NoneRec THEN tokens ELSE tokens \cup {token}
               /\ res' = Response("signup", <<>>, body, 201, "User created successfully",
                                  [user |-> newUser, token |-> token])
    /\ inflight' = inflight \ {p}
    /\ UNCHANGED <<tokenBlacklist, routeTokenBlacklist, now, contentVars>>

createUser_ignoresRejection(hdr, body) ==
    LET g == Gate(hdr, {"admin"})
        user == NewUser(body, body.role)
    IN /\ IF ~g.pass
          THEN /\ res' = Denied("createUser", hdr, g)
               /\ UNCHANGED <<users, nextId>>
          ELSE /\ users' = users \cup {user}
               /\ nextId' = nextId + 1
               /\ res' = Response("createUser", hdr, body, 201, "", user)
       /\ UNCHANGED <<tokenBlacklist, routeTokenBlacklist, now, tokens, inflight, contentVars>>

\* POST /users: authenticateToken, authorizeRoles("admin"), createUser
createUser(hdr, body) ==
    LET g == Gate(hdr, {"admin"})
        user == NewUser(body, body.role)
    IN /\ IF ~g.pass
          THEN /\ res' = Denied("createUser", hdr, g)
               /\ UNCHANGED <<users, nextId>>
          ELSE IF SaveRejected(user)
          THEN /\ res' = Response("createUser", hdr, NoneRec, 400, "duplicate key", NoneRec)
               /\ UNCHANGED <<users, nextId>>
          ELSE /\ users' = users \cup {user}
               /\ nextId' = nextId + 1
               /\ res' = Response("createUser", hdr, body, 201, "", user)
       /\ UNCHANGED <<tokenBlacklist, routeTokenBlacklist, now, tokens, inflight, contentVars>>

\* GET /users: authenticateToken, authorizeRoles("admin"), getAllUsers
getAllUsers(hdr) ==
    LET g == Gate(hdr, {"admin"}) IN
    /\ res' = IF ~g.pass THEN Denied("getAllUsers", hdr, g)
              ELSE Response("getAllUsers", hdr, NoneRec, 200, "", users)
    /\ UNCHANGED <<users, nextId, tokenBlacklist, routeTokenBlacklist, now, tokens, inflight, contentVars>>

\* POST /login
login(email, password) ==
    LET user == findOneByEmail(email)
        req == [email |-> email, password |-> password]
    IN /\ IF user = NoneRec \/ ~comparePassword(user, password)
          THEN /\ res' = Response("login", <<>>, NoneRec, 400, "Invalid email or password", NoneRec)
               /\ UNCHANGED tokens
          ELSE LET token == jwtSign(user.id, user.role) IN
               /\ token \in tokens \/ Cardinality(tokens) < MaxTokens
               /\ tokens' = tokens \cup {token}
               /\ res' = Response("login", <<>>, req, 200, "Login successful",
                                  [user |-> user, token |-> token])
       /\ UNCHANGED <<users, nextId, tokenBlacklist, routeTokenBlacklist, now, inflight, contentVars>>

\* POST /logout as routed: authenticateToken, then the inline handler, which
\* pushes the token onto the array declared in the routes file
logoutRoute(hdr) ==
    LET g == Gate(hdr, {})
        token == TokenOf(hdr)
    IN /\ IF ~g.pass
          THEN /\ res' = Denied("logoutRoute", hdr, g)
               /\ UNCHANGED routeTokenBlacklist
          ELSE IF token # NoneRec
          THEN /\ Len(routeTokenBlacklist) < MaxRouteBlacklist
               /\ routeTokenBlacklist' = Append(routeTokenBlacklist, token)
               /\ res' = Response("logoutRoute", hdr, NoneRec, 200, "Logout successful", NoneRec)
          ELSE /\ res' = Response("logoutRoute", hdr, NoneRec, 400, "Token required", NoneRec)
               /\ UNCHANGED routeTokenBlacklist
       /\ UNCHANGED <<users, nextId, tokenBlacklist, now, tokens, inflight, contentVars>>

\* the controller's logout handler: adds the token to utils/tokenBlacklist
logout(hdr) ==
    LET token == TokenOf(hdr) IN
    /\ IF token # NoneRec
       THEN /\ token \in tokenBlacklist \/ Cardinality(tokenBlacklist) < MaxBlacklist
            /\ tokenBlacklist' = tokenBlacklist \cup {token}
       ELSE UNCHANGED tokenBlacklist
    /\ res' = Response("logout", hdr, NoneRec, 200, "Logout successful", NoneRec)
    /\ UNCHANGED <<users, nextId, routeTokenBlacklist, now, tokens, inflight, contentVars>>

\* GET /profile: authenticateToken, then res.json(req.user)
getProfile(hdr) ==
    LET g == Gate(hdr, {}) IN
    /\ res' = IF ~g.pass THEN Denied("getProfile", hdr, g)
              ELSE Response("getProfile", hdr, NoneRec, 200, "", g.user)
    /\ UNCHANGED <<users, nextId, tokenBlacklist, routeTokenBlacklist, now, tokens, inflight, contentVars>>

\* the authenticate stage on its own: it answers, or calls next() (status 0)
\* with the stored user attached to the request
authenticateStage_revokes(hdr) ==
    LET a == authenticateToken(hdr) IN
    /\ res' = Response("authenticateToken", hdr, NoneRec, a.status, a.msg, a.user)
    /\ tokenBlacklist' = IF a.status = 403 THEN tokenBlacklist \cup {TokenOf(hdr)}
                         ELSE tokenBlacklist
    /\ UNCHANGED <<users, nextId, routeTokenBlacklist, now, tokens, inflight, contentVars>>

authenticateStage(hdr) ==
    LET a == authenticateToken(hdr) IN
    /\ res' = Response("authenticateToken", hdr, NoneRec, a.status, a.msg, a.user)
    /\ UNCHANGED <<users, nextId, tokenBlacklist, routeTokenBlacklist, now, tokens, inflight, contentVars>>

\* the authorize stage on its own, after an authenticate stage that passed:
\* it answers 403, or calls next() (status 0)
authorizeStage(hdr, roles) ==
    LET a == authenticateToken(hdr) IN
    /\ a.pass
    /\ res' = IF authorizeRoles(roles, a.user)
              THEN Response("authorizeRoles", hdr, NoneRec, 0, "", a.user)
              ELSE Response("authorizeRoles", hdr, NoneRec, 403,
                            "Access denied. Insufficient permissions.", a.user)
    /\ UNCHANGED <<users, nextId, tokenBlacklist, routeTokenBlacklist, now, tokens, inflight, contentVars>>

restart_keepsBlacklist ==
    /\ routeTokenBlacklist' = <<>>
    /\ inflight' = {}
    /\ res' = Response("restart", <<>>, inflight, 0, "", tokenBlacklist)
    /\ UNCHANGED <<users, nextId, tokenBlacklist, now, tokens, contentVars>>

\* the process stops and starts again: the module-level Set and array are
\* built anew and the requests in flight are gone; the document store and
\* the tokens clients hold are untouched.  The record of the event keeps
\* the entries the Set held and the requests that were in flight when the
\* process stopped.
restart ==
    /\ tokenBlacklist' = {}
    /\ routeTokenBlacklist' = <<>>
    /\ inflight' = {}
    /\ res' = Response("restart", <<>>, inflight, 0, "", tokenBlacklist)
    /\ UNCHANGED <<users, nextId, now, tokens, contentVars>>

\* time passes between requests
Tick ==
    /\ now < MaxTime
    /\ now' = now + 1
    /\ res' = NoResponse
    /\ UNCHANGED <<users, nextId, tokenBlacklist, routeTokenBlacklist, tokens, inflight, contentVars>>

\* ========================================================== content store
Null == "null"

\* the ids a request can name: the ones the store has handed out so far
\* (deleted or not) and one well-formed id that it never hands out
GhostId == MaxDocs + 1
CourseIds == {i \in 1..MaxDocs : i < nextCourseId} \cup {GhostId}
LessonIds == {i \in 1..MaxDocs : i < nextLessonId} \cup {GhostId}
TopicIds == {i \in 1..MaxDocs : i < nextTopicId} \cup {GhostId}

\* Course, Lesson and Topic documents created so far
DocsCreated == (nextCourseId - 1) + (nextLessonId - 1) + (nextTopicId - 1)

\* Course.findById / Lesson.findById / Topic.findById
findCourse(id) ==
    IF \E c \in courses : c.id = id THEN CHOOSE c \in courses : c.id = id ELSE NoneRec

findLesson(id) ==
    IF \E l \in lessons : l.id = id THEN CHOOSE l \in lessons : l.id = id ELSE NoneRec

findTopic(id) ==
    IF \E t \in topics : t.id = id THEN CHOOSE t \in topics : t.id = id ELSE NoneRec

Range(seq) == {seq[i] : i \in 1..Len(seq)}

\* MongooseArray.pull(id): removes every occurrence
Pull(seq, id) == SelectSeq(seq, LAMBDA e : e # id)

\* req.file ? req.file.path : null
FilePath(file) == IF file = Undefined THEN Null ELSE file

\* a schema's `required: true` paths, for the string paths and the id paths
Missing(strings) == \E f \in strings : f = Undefined

\* an id path or an array path the request does not hold
NoId == 1 - 1
NoList == <<NoId>>

\* ------------------------------------------------------------------ courses
\* req.body and req.file of the course routes
CourseBodies == [title : {"t1", Undefined}, description : {"d1"},
                 instructor : {"i1"}, price : {10}]
Files == {Undefined, "uploads/1.png"}

\* req.body of PUT /admin/courses/:id
CourseUpdates == [title : {"t2"}, description : {"d1"}, instructor : {"i1"}, price : {10}]

\* POST /admin/courses (the handler registered first answers every request)
createCourse(hdr, body, file) ==
    LET g == Gate(hdr, {"admin"})
        req == [body |-> body, file |-> file]
        newCourse == [id |-> nextCourseId, title |-> body.title,
                      description |-> body.description, instructor |-> body.instructor,
                      price |-> body.price, image |-> FilePath(file)]
    IN /\ IF ~g.pass
          THEN /\ res' = Denied("createCourse", hdr, g)
               /\ UNCHANGED <<courses, nextCourseId>>
          ELSE IF Missing({body.title, body.description, body.instructor})
          THEN /\ res' = Response("createCourse", hdr, NoneRec, 400, "validation failed", NoneRec)
               /\ UNCHANGED <<courses, nextCourseId>>
          ELSE /\ DocsCreated < MaxDocs
               /\ courses' = courses \cup {newCourse}
               /\ nextCourseId' = nextCourseId + 1
               /\ res' = Response("createCourse", hdr, req, 201, "", newCourse)
       /\ UNCHANGED <<userVars, sessionVars, lessons, topics, nextLessonId, nextTopicId>>

\* PUT /admin/courses/:id
updateCourse(hdr, id, body, file) ==
    LET g == Gate(hdr, {"admin"})
        req == [id |-> id, body |-> body, file |-> file]
        old == findCourse(id)
        course == [id |-> id, title |-> body.title, description |-> body.description,
                   instructor |-> body.instructor, price |-> body.price,
                   image |-> IF file # Undefined THEN file ELSE old.image]
    IN /\ IF ~g.pass
          THEN /\ res' = Denied("updateCourse", hdr, g)
               /\ UNCHANGED courses
          ELSE IF old = NoneRec
          THEN /\ res' = Response("updateCourse", hdr, NoneRec, 404, "Course not found", NoneRec)
               /\ UNCHANGED courses
          ELSE /\ courses' = (courses \ {old}) \cup {course}
               /\ res' = Response("updateCourse", hdr, req, 200, "", course)
       /\ UNCHANGED <<userVars, sessionVars, lessons, topics, nextCourseId, nextLessonId, nextTopicId>>

deleteCourse_cascades(hdr, id) ==
    LET g == Gate(hdr, {"admin"})
        req == [id |-> id]
        course == findCourse(id)
    IN /\ IF ~g.pass
          THEN /\ res' = Denied("deleteCourse", hdr, g)
               /\ UNCHANGED <<courses, lessons>>
          ELSE IF course = NoneRec
          THEN /\ res' = Response("deleteCourse", hdr, NoneRec, 404, "Course not found", NoneRec)
               /\ UNCHANGED <<courses, lessons>>
          ELSE /\ courses' = courses \ {course}
               /\ lessons' = {l \in lessons : l.courseId # id}
               /\ res' = Response("deleteCourse", hdr, req, 200, "Course deleted successfully", NoneRec)
       /\ UNCHANGED <<userVars, sessionVars, topics, nextCourseId, nextLessonId, nextTopicId>>

\* DELETE /admin/courses/:id
deleteCourse(hdr, id) ==
    LET g == Gate(hdr, {"admin"})
        req == [id |-> id]
        course == findCourse(id)
    IN /\ IF ~g.pass
          THEN /\ res' = Denied("deleteCourse", hdr, g)
               /\ UNCHANGED courses
          ELSE IF course = NoneRec
          THEN /\ res' = Response("deleteCourse", hdr, NoneRec, 404, "Course not found", NoneRec)
               /\ UNCHANGED courses
          ELSE /\ courses' = courses \ {course}
               /\ res' = Response("deleteCourse", hdr, req, 200, "Course deleted successfully", NoneRec)
       /\ UNCHANGED <<userVars, sessionVars, lessons, topics, nextCourseId, nextLessonId, nextTopicId>>

\* GET /courses/:id: answers 200 with whatever findById returned
getCourseById(hdr, id) ==
    LET g == Gate(hdr, {}) IN
    /\ res' = IF ~g.pass THEN Denied("getCourseById", hdr, g)
              ELSE Response("getCourseById", hdr, [id |-> id], 200, "", findCourse(id))
    /\ UNCHANGED <<userVars, sessionVars, contentVars>>

CourseProjection_full(c) == c

\* Course.find({}, "title description"): the named paths, and _id, which a
\* projection keeps unless it is excluded
CourseProjection(c) == [id |-> c.id, title |-> c.title, description |-> c.description]

\* what GET /courses sends for a caller of the given role over a given store
listCourses(role, store) ==
    IF role = "admin" THEN store ELSE {CourseProjection(c) : c \in store}

\* GET /courses: authenticateToken, then the list chosen by req.user.role
getCourses(hdr) ==
    LET g == Gate(hdr, {}) IN
    /\ res' = IF ~g.pass THEN Denied("getCourses", hdr, g)
              ELSE Response("getCourses", hdr, NoneRec, 200, "", listCourses(g.user.role, courses))
    /\ UNCHANGED <<userVars, sessionVars, contentVars>>

\* ------------------------------------------------------------------ lessons
\* req.body of POST /lessons; `topics` is optional and defaults to []
TopicLists == {<<>>} \cup {<<t>> : t \in {i \in TopicIds : i < nextTopicId}}
LessonBodies == [title : {"l1"}, description : {"d1"}, courseId : CourseIds,
                 topics : {NoList} \cup TopicLists]

\* req.body of PUT /lessons/:id: the paths it holds are the ones set
LessonUpdates == [courseId : {NoId} \cup {i \in CourseIds : i < nextCourseId},
                  topics : {NoList} \cup TopicLists]

\* POST /lessons
createLesson(hdr, body) ==
    LET g == Gate(hdr, {"admin"})
        lesson == [id |-> nextLessonId, title |-> body.title,
                   description |-> body.description, courseId |-> body.courseId,
                   topics |-> IF body.topics = NoList THEN <<>> ELSE body.topics]
    IN /\ IF ~g.pass
          THEN /\ res' = Denied("createLesson", hdr, g)
               /\ UNCHANGED <<lessons, nextLessonId>>
          ELSE IF Missing({body.title, body.description}) \/ body.courseId = NoId
          THEN /\ res' = Response("createLesson", hdr, NoneRec, 400, "validation failed", NoneRec)
               /\ UNCHANGED <<lessons, nextLessonId>>
          ELSE /\ DocsCreated < MaxDocs
               /\ lessons' = lessons \cup {lesson}
               /\ nextLessonId' = nextLessonId + 1
               /\ res' = Response("createLesson", hdr, body, 201, "", lesson)
       /\ UNCHANGED <<userVars, sessionVars, courses, topics, nextCourseId, nextTopicId>>

\* PUT /lessons/:id: findByIdAndUpdate(id, req.body, { new: true })
updateLesson(hdr, id, body) ==
    LET g == Gate(hdr, {"admin"})
        req == [id |-> id, body |-> body]
        old == findLesson(id)
        lesson == [old EXCEPT
                     !.courseId = IF body.courseId = NoId THEN @ ELSE body.courseId,
                     !.topics = IF body.topics = NoList THEN @ ELSE body.topics]
    IN /\ IF ~g.pass
          THEN /\ res' = Denied("updateLesson", hdr, g)
               /\ UNCHANGED lessons
          ELSE IF old = NoneRec
          THEN /\ res' = Response("updateLesson", hdr, NoneRec, 404, "Lesson not found", NoneRec)
               /\ UNCHANGED lessons
          ELSE /\ lessons' = (lessons \ {old}) \cup {lesson}
               /\ res' = Response("updateLesson", hdr, req, 200, "", lesson)
       /\ UNCHANGED <<userVars, sessionVars, courses, topics, nextCourseId, nextLessonId, nextTopicId>>

\* DELETE /lessons/:id: findByIdAndDelete, then
\* Topic.deleteMany({ _id: { $in: lesson.topics } })
deleteLesson(hdr, id) ==
    LET g == Gate(hdr, {"admin"})
        req == [id |-> id]
        lesson == findLesson(id)
    IN /\ IF ~g.pass
          THEN /\ res' = Denied("deleteLesson", hdr, g)
               /\ UNCHANGED <<lessons, topics>>
          ELSE IF lesson = NoneRec
          THEN /\ res' = Response("deleteLesson", hdr, NoneRec, 404, "Lesson not found", NoneRec)
               /\ UNCHANGED <<lessons, topics>>
          ELSE /\ lessons' = lessons \ {lesson}
               /\ topics' = {t \in topics : t.id \notin Range(lesson.topics)}
               /\ res' = Response("deleteLesson", hdr, req, 200, "Lesson deleted successfully", NoneRec)
       /\ UNCHANGED <<userVars, sessionVars, courses, nextCourseId, nextLessonId, nextTopicId>>

\* GET /lessons/:id
getLessonById(hdr, id) ==
    LET g == Gate(hdr, {})
        lesson == findLesson(id)
    IN /\ res' = IF ~g.pass THEN Denied("getLessonById", hdr, g)
                 ELSE IF lesson = NoneRec
                 THEN Response("getLessonById", hdr, NoneRec, 404, "Lesson not found", NoneRec)
                 ELSE Response("getLessonById", hdr, [id |-> id], 200, "", lesson)
       /\ UNCHANGED <<userVars, sessionVars, contentVars>>

\* GET /lessons/course/:courseId: Lesson.find({ courseId }), 404 when empty
getLessonsByCourse(hdr, courseId) ==
    LET g == Gate(hdr, {})
        found == {l \in lessons : l.courseId = courseId}
    IN /\ res' = IF ~g.pass THEN Denied("getLessonsByCourse", hdr, g)
                 ELSE IF found = {}
                 THEN Response("getLessonsByCourse", hdr, [id |-> courseId], 404,
                               "No lessons found for this course", NoneRec)
                 ELSE Response("getLessonsByCourse", hdr, [id |-> courseId], 200, "", found)
       /\ UNCHANGED <<userVars, sessionVars, contentVars>>

\* ------------------------------------------------------------------- topics
\* req.body of POST /admin/topics and PUT /admin/topics/:id
TopicBodies == [title : {"k1"}, description : {"d1"}, lessonId : LessonIds]

createTopic_noPush(hdr, body, file) ==
    LET g == Gate(hdr, {"admin"})
        req == [body |-> body, file |-> file]
        topic == [id |-> nextTopicId, title |-> body.title, description |-> body.description,
                  lessonId |-> body.lessonId, image |-> FilePath(file)]
        lesson == findLesson(body.lessonId)
    IN /\ IF ~g.pass
          THEN /\ res' = Denied("createTopic", hdr, g)
               /\ UNCHANGED <<topics, nextTopicId>>
          ELSE IF Missing({body.title, body.description}) \/ body.lessonId = NoId
          THEN /\ res' = Response("createTopic", hdr, NoneRec, 400, "validation failed", NoneRec)
               /\ UNCHANGED <<topics, nextTopicId>>
          ELSE /\ DocsCreated < MaxDocs
               /\ topics' = topics \cup {topic}
               /\ nextTopicId' = nextTopicId + 1
               /\ res' = IF lesson = NoneRec
                         THEN Response("createTopic", hdr, NoneRec, 404, "Lesson not found", NoneRec)
                         ELSE Response("createTopic", hdr, req, 201, "", topic)
       /\ UNCHANGED <<userVars, sessionVars, courses, lessons, nextCourseId, nextLessonId>>

\* POST /admin/topics: the topic is saved first, the lesson looked up after
createTopic(hdr, body, file) ==
    LET g == Gate(hdr, {"admin"})
        req == [body |-> body, file |-> file]
        topic == [id |-> nextTopicId, title |-> body.title, description |-> body.description,
                  lessonId |-> body.lessonId, image |-> FilePath(file)]
        lesson == findLesson(body.lessonId)
    IN /\ IF ~g.pass
          THEN /\ res' = Denied("createTopic", hdr, g)
               /\ UNCHANGED <<topics, lessons, nextTopicId>>
          ELSE IF Missing({body.title, body.description}) \/ body.lessonId = NoId
          THEN /\ res' = Response("createTopic", hdr, NoneRec, 400, "validation failed", NoneRec)
               /\ UNCHANGED <<topics, lessons, nextTopicId>>
          ELSE /\ DocsCreated < MaxDocs
               /\ topics' = topics \cup {topic}
               /\ nextTopicId' = nextTopicId + 1
               /\ IF lesson = NoneRec
                  THEN /\ res' = Response("createTopic", hdr, NoneRec, 404, "Lesson not found", NoneRec)
                       /\ UNCHANGED lessons
                  ELSE /\ lessons' = (lessons \ {lesson}) \cup
                                       {[lesson EXCEPT !.topics = Append(@, topic.id)]}
                       /\ res' = Response("createTopic", hdr, req, 201, "", topic)
       /\ UNCHANGED <<userVars, sessionVars, courses, nextCourseId, nextLessonId>>

createTopicSave_withPush(hdr, body, file) ==
    LET g == Gate(hdr, {"admin"})
        req == [body |-> body, file |-> file]
        topic == [id |-> nextTopicId, title |-> body.title, description |-> body.description,
                  lessonId |-> body.lessonId, image |-> FilePath(file)]
        lesson == findLesson(body.lessonId)
    IN /\ IF ~g.pass
          THEN /\ res' = Denied("createTopic", hdr, g)
               /\ UNCHANGED <<topics, lessons, nextTopicId, inflight>>
          ELSE IF Missing({body.title, body.description}) \/ body.lessonId = NoId
          THEN /\ res' = Response("createTopic", hdr, NoneRec, 400, "validation failed", NoneRec)
               /\ UNCHANGED <<topics, lessons, nextTopicId, inflight>>
          ELSE /\ DocsCreated < MaxDocs
               /\ Cardinality(inflight) < MaxInflight
               /\ topics' = topics \cup {topic}
               /\ nextTopicId' = nextTopicId + 1
               /\ lessons' = IF lesson = NoneRec THEN lessons
                             ELSE (lessons \ {lesson}) \cup
                                    {[lesson EXCEPT !.topics = Append(@, topic.id)]}
               /\ inflight' = inflight \cup {[op |-> "createTopic", hdr |-> hdr,
                                               req |-> req, topic |-> topic]}
               /\ res' = NoResponse
       /\ UNCHANGED <<userVars, tokenBlacklist, routeTokenBlacklist, now, tokens,
                      courses, nextCourseId, nextLessonId>>

\* POST /admin/topics, up to `await topic.save()`: the first write
createTopicSave(hdr, body, file) ==
    LET g == Gate(hdr, {"admin"})
        req == [body |-> body, file |-> file]
        topic == [id |-> nextTopicId, title |-> body.title, description |-> body.description,
                  lessonId |-> body.lessonId, image |-> FilePath(file)]
    IN /\ IF ~g.pass
          THEN /\ res' = Denied("createTopic", hdr, g)
               /\ UNCHANGED <<topics, nextTopicId, inflight>>
          ELSE IF Missing({body.title, body.description}) \/ body.lessonId = NoId
          THEN /\ res' = Response("createTopic", hdr, NoneRec, 400, "validation failed", NoneRec)
               /\ UNCHANGED <<topics, nextTopicId, inflight>>
          ELSE /\ DocsCreated < MaxDocs
               /\ Cardinality(inflight) < MaxInflight
               /\ topics' = topics \cup {topic}
               /\ nextTopicId' = nextTopicId + 1
               /\ inflight' = inflight \cup {[op |-> "createTopic", hdr |-> hdr,
                                               req |-> req, topic |-> topic]}
               /\ res' = NoResponse
       /\ UNCHANGED <<userVars, tokenBlacklist, routeTokenBlacklist, now, tokens,
                      courses, lessons, nextCourseId, nextLessonId>>

\* POST /admin/topics, from `await Lesson.findById(lessonId)` to the response:
\* the second write, lesson.topics.push(topic._id) and lesson.save() (the
\* lookup of the lesson and its save are taken as one step)
createTopicPush(p) ==
    LET lesson == findLesson(p.topic.lessonId) IN
    /\ p \in inflight
    /\ IF lesson = NoneRec
       THEN /\ res' = Response("createTopic", p.hdr, NoneRec, 404, "Lesson not found", NoneRec)
            /\ UNCHANGED lessons
       ELSE /\ lessons' = (lessons \ {lesson}) \cup
                            {[lesson EXCEPT !.topics = Append(@, p.topic.id)]}
            /\ res' = Response("createTopic", p.hdr, p.req, 201, "", p.topic)
    /\ inflight' = inflight \ {p}
    /\ UNCHANGED <<userVars, tokenBlacklist, routeTokenBlacklist, now, tokens,
                   courses, topics, nextCourseId, nextLessonId, nextTopicId>>

\* PUT /admin/topics/:id: findByIdAndUpdate(id, { title, description, lessonId
\* [, image] }, { new: true }); no lesson is read or written
updateTopic(hdr, id, body, file) ==
    LET g == Gate(hdr, {"admin"})
        req == [id |-> id, body |-> body, file |-> file]
        old == findTopic(id)
        topic == [id |-> id, title |-> body.title, description |-> body.description,
                  lessonId |-> body.lessonId,
                  image |-> IF file # Undefined THEN file ELSE old.image]
    IN /\ IF ~g.pass
          THEN /\ res' = Denied("updateTopic", hdr, g)
               /\ UNCHANGED topics
          ELSE IF old = NoneRec
          THEN /\ res' = Response("updateTopic", hdr, NoneRec, 404, "Topic not found", NoneRec)
               /\ UNCHANGED topics
          ELSE /\ topics' = (topics \ {old}) \cup {topic}
               /\ res' = Response("updateTopic", hdr, req, 200, "", topic)
       /\ UNCHANGED <<userVars, sessionVars, courses, lessons, nextCourseId, nextLessonId, nextTopicId>>

\* DELETE /admin/topics/:id: findByIdAndDelete, then the topic's id is pulled
\* from the lesson its lessonId names, when that lesson exists
deleteTopic(hdr, id) ==
    LET g == Gate(hdr, {"admin"})
        req == [id |-> id]
        topic == findTopic(id)
        lesson == findLesson(topic.lessonId)
    IN /\ IF ~g.pass
          THEN /\ res' = Denied("deleteTopic", hdr, g)
               /\ UNCHANGED <<topics, lessons>>
          ELSE IF topic = NoneRec
          THEN /\ res' = Response("deleteTopic", hdr, NoneRec, 404, "Topic not found", NoneRec)
               /\ UNCHANGED <<topics, lessons>>
          ELSE /\ topics' = topics \ {topic}
               /\ lessons' = IF lesson = NoneRec THEN lessons
                             ELSE (lessons \ {lesson}) \cup
                                    {[lesson EXCEPT !.topics = Pull(@, topic.id)]}
               /\ res' = Response("deleteTopic", hdr, req, 200, "Topic deleted successfully", NoneRec)
       /\ UNCHANGED <<userVars, sessionVars, courses, nextCourseId, nextLessonId, nextTopicId>>

\* GET /topics/:id
getTopicById(hdr, id) ==
    LET g == Gate(hdr, {})
        topic == findTopic(id)
    IN /\ res' = IF ~g.pass THEN Denied("getTopicById", hdr, g)
                 ELSE IF topic = NoneRec
                 THEN Response("getTopicById", hdr, NoneRec, 404, "Topic not found", NoneRec)
                 ELSE Response("getTopicById", hdr, [id |-> id], 200, "", topic)
       /\ UNCHANGED <<userVars, sessionVars, contentVars>>

\* ------------------------------------------------------- specifications
Variants == {"evolved", "legacy"}
InflightRequests == [variant : Variants, body : UserBodies]

\* one account, any role: the session operations
SessionBodies == {b \in UserBodies : b.email = "a@x.com"}

Next ==
    \/ \E v \in Variants, b \in SessionBodies : inflight = {} /\ signupFind(v, b)
    \/ \E p \in InflightRequests : signupSave(p)
    \/ \E e \in {"a@x.com"}, p \in Passwords \cup {"wrong"} : login(e, p)
    \/ \E h \in Headers : logoutRoute(h)
    \/ \E h \in Headers : logout(h)
    \/ \E h \in Headers : getProfile(h)
    \/ Tick

Spec == Init /\ [][Next]_vars

\* signups and admin user creation racing on the same emails
NextUsers ==
    \/ \E v \in Variants, b \in UserBodies : signupFind(v, b)
    \/ \E p \in InflightRequests : signupSave(p)
    \/ \E h \in Headers, b \in UserBodies : createUser(h, b)
    \/ \E h \in Headers : getAllUsers(h)
    \/ \E e \in Emails, p \in Passwords \cup {"wrong"} : login(e, p)

SpecUsers == Init /\ [][NextUsers]_vars

\* the content routes, called by an administrator, by a plain user and
\* without a token; the two accounts are already stored and logged in
Admin == [id |-> 1, name |-> "Root", email |-> "root@x.com",
          password |-> HashPassword("p0"), role |-> "admin"]
Student == [id |-> 2, name |-> "Stu", email |-> "stu@x.com",
            password |-> HashPassword("p0"), role |-> "user"]

InitContent ==
    /\ users = {Admin, Student}
    /\ nextId = 3
    /\ tokenBlacklist = {}
    /\ routeTokenBlacklist = <<>>
    /\ now = 0
    /\ tokens = {[id |-> u.id, role |-> u.role, iat |-> 0, exp |-> ExpiresIn, sig |-> "ok"] :
                   u \in {Admin, Student}}
    /\ inflight = {}
    /\ courses = {}
    /\ lessons = {}
    /\ topics = {}
    /\ nextCourseId = 1
    /\ nextLessonId = 1
    /\ nextTopicId = 1
    /\ res = NoResponse

ContentHeaders == {<<>>} \cup {<<"Bearer", t>> : t \in tokens}
ContentUserBodies == {b \in UserBodies : b.email = "a@x.com" /\ b.role = Undefined}

NextContent ==
    \/ \E h \in ContentHeaders, b \in CourseBodies, f \in Files : createCourse(h, b, f)
    \/ \E h \in ContentHeaders, i \in CourseIds, b \in CourseUpdates, f \in Files :
          updateCourse(h, i, b, f)
    \/ \E h \in ContentHeaders, i \in CourseIds : deleteCourse(h, i)
    \/ \E h \in ContentHeaders, i \in CourseIds : getCourseById(h, i)
    \/ \E h \in ContentHeaders : getCourses(h)
    \/ \E h \in ContentHeaders, b \in LessonBodies : createLesson(h, b)
    \/ \E h \in ContentHeaders, i \in LessonIds, b \in LessonUpdates : updateLesson(h, i, b)
    \/ \E h \in ContentHeaders, i \in LessonIds : deleteLesson(h, i)
    \/ \E h \in ContentHeaders, i \in LessonIds : getLessonById(h, i)
    \/ \E h \in ContentHeaders, i \in CourseIds : getLessonsByCourse(h, i)
    \/ \E h \in ContentHeaders, b \in TopicBodies, f \in Files : createTopic(h, b, f)
    \/ \E h \in ContentHeaders, i \in TopicIds, b \in TopicBodies, f \in Files : updateTopic(h, i, b, f)
    \/ \E h \in ContentHeaders, i \in TopicIds : deleteTopic(h, i)
    \/ \E h \in ContentHeaders, i \in TopicIds : getTopicById(h, i)
    \/ \E h \in ContentHeaders, b \in ContentUserBodies : createUser(h, b)
    \/ \E h \in ContentHeaders : getAllUsers(h)

SpecContent == InitContent /\ [][NextContent]_vars

\* the lesson and topic routes with the two writes of a topic creation as
\* separate steps, other requests running between them, and the process
\* stopping at any moment
NextTopics ==
    \/ \E h \in ContentHeaders, b \in LessonBodies : createLesson(h, b)
    \/ \E h \in ContentHeaders, i \in LessonIds, b \in LessonUpdates : updateLesson(h, i, b)
    \/ \E h \in ContentHeaders, i \in LessonIds : deleteLesson(h, i)
    \/ \E h \in ContentHeaders, b \in TopicBodies, f \in Files : createTopicSave(h, b, f)
    \/ \E p \in inflight : createTopicPush(p)
    \/ \E h \in ContentHeaders, i \in TopicIds, b \in TopicBodies, f \in Files : updateTopic(h, i, b, f)
    \/ \E h \in ContentHeaders, i \in TopicIds : deleteTopic(h, i)
    \/ \E h \in ContentHeaders, i \in TopicIds : getTopicById(h, i)
    \/ restart

SpecTopics == InitContent /\ [][NextTopics]_vars

\* the auth gate on its own: every header against every blacklist, clock
\* value and user store (the account of a token in circulation may have
\* been removed from the store since the token was issued)
GateToken == [id |-> 1, role |-> "admin", iat |-> 0, exp |-> ExpiresIn, sig |-> "ok"]
StudentToken == [id |-> 2, role |-> "user", iat |-> 0, exp |-> ExpiresIn, sig |-> "ok"]

\* tokens signed at a login when the stored role of the account was the
\* other one: the role claim of a token is fixed when it is signed, the
\* stored role is whatever the users collection holds now
StaleTokens == {[GateToken EXCEPT !.role = "user"], [StudentToken EXCEPT !.role = "admin"]}

InitGate ==
    /\ users \in {{}, {Admin}, {Admin, Student}}
    /\ nextId = 3
    /\ tokenBlacklist \in SUBSET {GateToken, Forge(GateToken)}
    /\ routeTokenBlacklist = <<>>
    /\ now \in 0..MaxTime
    /\ tokens = {GateToken, StudentToken} \cup StaleTokens
    /\ inflight = {}
    /\ courses = {}
    /\ lessons = {}
    /\ topics = {}
    /\ nextCourseId = 1
    /\ nextLessonId = 1
    /\ nextTopicId = 1
    /\ res = NoResponse

\* the role sets the routes pass to authorizeRoles
RoleSets == {{"admin"}}

NextGate ==
    \/ \E h \in Headers : getProfile(h)
    \/ \E h \in Headers : getAllUsers(h)
    \/ \E h \in Headers : logout(h)
    \/ \E h \in Headers : authenticateStage(h)
    \/ \E h \in Headers, r \in RoleSets : authorizeStage(h, r)
    \/ restart
    \/ Tick

SpecGate == InitGate /\ [][NextGate]_vars

\* ================================================================== claims
StoredEmails == {u.email : u \in users}

\* the routes behind authenticateToken that the session operations use
SessionGated == {"getProfile", "logoutRoute"}

\* C1: once POST /logout with token T has answered 200 (T is then on the
\* routes file's array), every GET /profile carrying T is answered 403.
C1_LogoutRevokes ==
    (res.op = "getProfile" /\ TokenOf(res.hdr) \in Range(routeTokenBlacklist))
        => res.status = 403

\* C2: a token on the blacklist store is answered 403 by the gate, expired
\* or not; the store never loses an entry; a signed, unexpired token that is
\* not on it, for a stored user, is accepted.
C2_BlacklistRejects ==
    /\ [](res.op \in SessionGated /\ Len(res.hdr) >= 2 =>
            LET t == TokenOf(res.hdr) IN
            /\ t \in tokenBlacklist => res.status = 403
            /\ (/\ t \notin tokenBlacklist
                /\ t.sig = "ok"
                /\ now < t.iat + ExpiresIn
                /\ \E u \in users : u.id = t.id) => res.status = 200)
    /\ [][tokenBlacklist \subseteq tokenBlacklist']_vars

\* a revoked token is refused before its expiry while another token with
\* the same claims, not revoked, is in circulation
C2_Witness ==
    /\ res.op = "getProfile"
    /\ res.status = 403
    /\ Len(res.hdr) >= 2
    /\ LET t == TokenOf(res.hdr) IN
       /\ t \in tokenBlacklist
       /\ t.sig = "ok"
       /\ now < t.iat + ExpiresIn
       /\ \E t2 \in tokens \ tokenBlacklist :
             t2.id = t.id /\ t2.role = t.role /\ now < t2.iat + ExpiresIn

\* C10: signup and login date the token at the moment of the response; a
\* request carrying an issued token is accepted only while less than one
\* hour has passed since then, and is answered 403 from then on.
C10_ExpiredRejected ==
    /\ (res.op \in {"signup", "login"} /\ res.status \in {200, 201} /\ res.body.token # NoneRec)
          => res.body.token.iat = now
    /\ (res.op \in SessionGated /\ Len(res.hdr) >= 2 /\ TokenOf(res.hdr) \in tokens) =>
          LET t == TokenOf(res.hdr) IN
          /\ now >= t.iat + ExpiresIn => res.status = 403
          /\ res.status = 200 => now < t.iat + ExpiresIn

\* an issued token that was never revoked, whose user is stored, is refused
\* once its hour is over
C10_Witness ==
    /\ res.op = "getProfile"
    /\ res.status = 403
    /\ Len(res.hdr) >= 2
    /\ LET t == TokenOf(res.hdr) IN
       /\ t \in tokens
       /\ t \notin tokenBlacklist
       /\ now >= t.iat + ExpiresIn
       /\ \E u \in users : u.id = t.id

\* C9: authenticate decides by the first check that fails, in the order: no
\* token (401), token on the blacklist (403, before any verification), token
\* that does not verify (403), no stored user for the subject id (404); the
\* handler runs with the stored user only when all four pass.
C9_CheckOrder ==
    res.op \in {"getProfile", "getAllUsers"} =>
        LET t == TokenOf(res.hdr) IN
        IF Len(res.hdr) < 2
        THEN res.status = 401
        ELSE IF t \in tokenBlacklist
        THEN res.status = 403 /\ res.msg = "Token is blacklisted. Please log in again."
        ELSE IF t.sig # "ok" \/ now >= t.exp
        THEN res.status = 403 /\ res.msg = "Invalid token."
        ELSE IF ~\E u \in users : u.id = t.id
        THEN res.status = 404
        ELSE /\ res.op = "getProfile" =>
                  res.status = 200 /\ res.body \in users /\ res.body.id = t.id
             /\ res.op = "getAllUsers" =>
                  \/ res.status = 200
                  \/ res.status = 403 /\ res.msg = "Access denied. Insufficient permissions."

\* a revoked token that would not verify either is refused as blacklisted
C9_Witness ==
    /\ res.op = "getProfile"
    /\ Len(res.hdr) >= 2
    /\ TokenOf(res.hdr) \in tokenBlacklist
    /\ (TokenOf(res.hdr).sig # "ok" \/ now >= TokenOf(res.hdr).exp)
    /\ res.status = 403
    /\ res.msg = "Token is blacklisted. Please log in again."

\* a signed, unexpired, unrevoked token whose user is not stored: 404
C9_UserGone ==
    /\ res.op = "getProfile"
    /\ Len(res.hdr) >= 2
    /\ TokenOf(res.hdr) \notin tokenBlacklist
    /\ TokenOf(res.hdr).sig = "ok"
    /\ now < TokenOf(res.hdr).exp
    /\ res.status = 404

\* C3: creating a Topic whose lessonId names no stored Lesson is answered
\* 404 and creates no Topic (a 201 is only given when the Lesson is stored).
C3_NoTopicWithoutLesson ==
    [][res'.op = "createTopic" =>
          /\ res'.status = 404 => topics' = topics
          /\ res'.status = 201 => \E l \in lessons : l.id = res'.req.body.lessonId]_vars

\* C4: after DELETE /lessons/L has answered 200, no stored Topic has
\* lessonId L (so GET /topics/:id finds none of them).
C4_LessonDeleteCascades ==
    (res.op = "deleteLesson" /\ res.status = 200) =>
        \A t \in topics : t.lessonId # res.req.id

\* the admin-only routes
AdminOps == {"createCourse", "updateCourse", "deleteCourse",
             "createLesson", "updateLesson", "deleteLesson",
             "createTopic", "updateTopic", "deleteTopic",
             "createUser", "getAllUsers"}

\* the user a request's token names, when the token is one in circulation
CallerRoles(hdr) ==
    IF Len(hdr) >= 2 /\ TokenOf(hdr) \in tokens
    THEN {u.role : u \in {v \in users : v.id = TokenOf(hdr).id}}
    ELSE {}

\* a 201 response's document can be fetched, with the submitted fields
Retrievable ==
    /\ res.op = "createCourse" =>
          /\ findCourse(res.body.id) = res.body
          /\ res.body.title = res.req.body.title
          /\ res.body.description = res.req.body.description
          /\ res.body.instructor = res.req.body.instructor
          /\ res.body.price = res.req.body.price
          /\ res.body.image = FilePath(res.req.file)
    /\ res.op = "createLesson" =>
          /\ findLesson(res.body.id) = res.body
          /\ res.body.title = res.req.title
          /\ res.body.description = res.req.description
          /\ res.body.courseId = res.req.courseId
          /\ res.req.topics # NoList => res.body.topics = res.req.topics
    /\ res.op = "createTopic" =>
          /\ findTopic(res.body.id) = res.body
          /\ res.body.title = res.req.body.title
          /\ res.body.description = res.req.body.description
          /\ res.body.lessonId = res.req.body.lessonId
          /\ res.body.image = FilePath(res.req.file)
    /\ res.op = "createUser" =>
          /\ res.body \in users
          /\ res.body.name = res.req.name
          /\ res.body.email = res.req.email
          /\ res.req.role # Undefined => res.body.role = res.req.role

\* C5: on every admin-only route an authenticated caller who is not an admin
\* is answered 403 and users, courses, lessons and topics stay as they were;
\* an admin is not stopped by the gate, and what a 201 created can be fetched
\* afterwards with the submitted fields.
C5_AdminOnly ==
    /\ [](res.status = 201 /\ res.op \in AdminOps => Retrievable)
    /\ [][res'.op \in AdminOps =>
            /\ (CallerRoles(res'.hdr) # {} /\ "admin" \notin CallerRoles(res'.hdr)) =>
                  /\ res'.status = 403
                  /\ UNCHANGED <<users, courses, lessons, topics>>
            /\ "admin" \in CallerRoles(res'.hdr) => res'.status \notin {401, 403}
            /\ <<users, courses, lessons, topics>> # <<users', courses', lessons', topics'>> =>
                  "admin" \in CallerRoles(res'.hdr)]_vars

\* a course an administrator created is stored, and a plain user's attempt
\* to delete it is answered 403
C5_Witness ==
    /\ res.op = "deleteCourse"
    /\ res.status = 403
    /\ CallerRoles(res.hdr) = {"user"}
    /\ courses # {}

\* C6: a signup whose email belongs to a stored user is answered 400, whatever
\* its other fields, and neither stores a user nor issues a token.
C6_DuplicateSignupFails ==
    [][(res'.op = "signup" /\ res'.req.email \in StoredEmails) =>
          /\ res'.status = 400
          /\ users' = users
          /\ tokens' = tokens]_vars

\* a signup is refused for its email although its role differs from the
\* stored user's
C6_Witness ==
    /\ res.op = "signup"
    /\ res.status = 400
    /\ \E u \in users : u.email = res.req.email /\ u.role # SchemaRole(res.req.role)

\* C7: no two stored users have the same email, however signups and admin
\* user creations interleave.
C7_EmailUnique ==
    \A u1, u2 \in users : u1.email = u2.email => u1 = u2

\* a signup that passed the lookup is refused at its save, because a request
\* running beside it stored the email first
C7_Witness ==
    /\ res.op = "signup"
    /\ res.status = 400
    /\ res.msg = "duplicate key"
    /\ res.req.email \in StoredEmails

\* C8: the 201 response of a signup carries a token that verifies, whose
\* subject is the new user's id and whose role is the stored user's role.
C8_SignupToken ==
    (res.op = "signup" /\ res.status = 201) =>
        /\ res.body.token # NoneRec
        /\ jwtVerify(res.body.token)
        /\ res.body.token.id = res.body.user.id
        /\ \E u \in users : u.id = res.body.user.id /\ u.role = res.body.token.role

\* C11: POST /lessons whose courseId names no stored Course is refused and
\* stores no Lesson (a 201 is only given when the Course is stored).
C11_LessonNeedsCourse ==
    [][res'.op = "createLesson" =>
          /\ res'.status = 201 => \E c \in courses : c.id = res'.req.courseId
          /\ res'.status # 201 => lessons' = lessons]_vars

C13_TopicUnlisted ==
    (res.op = "deleteTopic" /\ res.status = 200) =>
        \A l \in lessons : res.req.id \notin Range(l.topics)

\* C14: DELETE /admin/courses/C removes the Course document C and nothing
\* else; the lessons whose courseId is C stay stored, and the lesson fetches
\* keep answering with them.
C14_CourseDeleteNoCascade ==
    /\ [][(res'.op = "deleteCourse" /\ res'.status = 200) =>
             /\ courses' = {c \in courses : c.id # res'.req.id}
             /\ lessons' = lessons
             /\ topics' = topics]_vars
    /\ []((res.op = "getLessonsByCourse" /\ res.status \in {200, 404}) =>
             /\ res.status = 200 <=> \E l \in lessons : l.courseId = res.req.id
             /\ res.status = 200 => res.body = {l \in lessons : l.courseId = res.req.id})
    /\ []((res.op = "getLessonById" /\ res.status = 200) =>
             res.body \in lessons /\ res.body.id = res.req.id)

\* the lessons of a course that was created and then deleted are listed
C14_Witness ==
    /\ res.op = "getLessonsByCourse"
    /\ res.status = 200
    /\ res.req.id < nextCourseId
    /\ findCourse(res.req.id) = NoneRec
    /\ res.body # {}

\* the values the paths a non-admin does not see can take
Instructors == {"i1", "i2"}
Prices == {10, 20}
Images == {Null, "uploads/1.png", "uploads/2.png"}

\* the stores that differ from `store` only in instructor, price or image
OtherStores(store) ==
    {{[c EXCEPT !.instructor = f[c][1], !.price = f[c][2], !.image = f[c][3]] : c \in store} :
        f \in [store -> Instructors \X Prices \X Images]}

\* C15: GET /courses answers with every stored course; complete documents for
\* an admin; for any other caller only the id, title and description, so
\* that stores differing only in instructor, price or image give that
\* caller the same response.
C15_RoleFilteredList ==
    (res.op = "getCourses" /\ res.status = 200) =>
        /\ {c.id : c \in res.body} = {c.id : c \in courses}
        /\ "admin" \in CallerRoles(res.hdr) => res.body = courses
        /\ "admin" \notin CallerRoles(res.hdr) =>
              /\ \A c \in res.body :
                    /\ DOMAIN c = {"id", "title", "description"}
                    /\ \E d \in courses :
                          d.id = c.id /\ d.title = c.title /\ d.description = c.description
              /\ \A store \in OtherStores(courses) : listCourses("user", store) = res.body

\* a plain user lists a store that holds a course with an image
C15_Witness ==
    /\ res.op = "getCourses"
    /\ res.status = 200
    /\ CallerRoles(res.hdr) = {"user"}
    /\ \E c \in courses : c.image # Null
    /\ res.body # {}

\* the routes that take the id of one Course, Lesson or Topic
ByIdOps == {"getCourseById", "updateCourse", "deleteCourse",
            "getLessonById", "updateLesson", "deleteLesson",
            "getTopicById", "updateTopic", "deleteTopic"}

\* whether the id a by-id route was given names a stored document
Resolves(op, id) ==
    IF op \in {"getCourseById", "updateCourse", "deleteCourse"}
    THEN \E c \in courses : c.id = id
    ELSE IF op \in {"getLessonById", "updateLesson", "deleteLesson"}
    THEN \E l \in lessons : l.id = id
    ELSE \E t \in topics : t.id = id

\* C16: on every fetch-by-id, update and delete route of Course, Lesson and
\* Topic, an id that names no stored document is answered 404 (never 200),
\* and a 404 leaves the stored documents as they were.
C16_MissingIdIs404 ==
    [][res'.op \in ByIdOps =>
          /\ res'.status = 200 => Resolves(res'.op, res'.req.id)
          /\ res'.status = 404 => UNCHANGED <<users, courses, lessons, topics>>]_vars

\* C17: GET /users without an Authorization header is answered 200 with the
\* stored users.
C17_ListUsersNoAuth ==
    (res.op = "getAllUsers" /\ res.hdr = <<>>) =>
        res.status = 200 /\ res.body = users

\* C18: POST /users without an Authorization header, with a name and an email
\* that is not stored, is answered 201 with the created user, which is stored.
C18_CreateUserNoAuth ==
    [][\A b \in UserBodies :
          (b.email \notin StoredEmails /\ createUser(<<>>, b)) =>
              /\ res'.status = 201
              /\ res'.body.name = b.name
              /\ res'.body \in users']_vars

\* the documents and the blacklist store
Persisted == <<users, courses, lessons, topics, tokenBlacklist>>

\* what the gate answers with, or 0 when it hands the request on
GateStatuses == {0, 401, 403, 404}

\* C19: the authenticate and authorize stages change neither the stored
\* users, courses, lessons and topics nor the blacklist, whatever they
\* answer; a stage that passes attaches the stored user of the token's
\* subject id, and a request the gate refuses changes nothing either.
C19_GateReadsOnly ==
    /\ [][res'.op \in {"authenticateToken", "authorizeRoles"} =>
             /\ res'.status \in GateStatuses
             /\ UNCHANGED Persisted
             /\ res'.status = 0 =>
                   res'.body \in users /\ res'.body.id = TokenOf(res'.hdr).id]_vars
    /\ [][(res'.op \in {"getProfile", "getAllUsers"} /\ res'.status \in {401, 403, 404}) =>
             UNCHANGED Persisted]_vars

\* each outcome of the two stages is met: this one is a pass of authenticate
\* followed by a refusal of authorize, with users stored and a token revoked
C19_Witness ==
    /\ res.op = "authorizeRoles"
    /\ res.status = 403
    /\ users # {}
    /\ tokenBlacklist # {}

\* C20: a restart leaves the blacklist store empty and the stored users,
\* courses, lessons and topics as they were; every token the store held that
\* is signed and unexpired, for a stored user, passes the gate again.
C20_RestartClearsBlacklist ==
    /\ [](res.op = "restart" =>
             /\ tokenBlacklist = {}
             /\ \A t \in res.body :
                   (t.sig = "ok" /\ now < t.exp /\ \E u \in users : u.id = t.id) =>
                       authenticateToken(<<"Bearer", t>>).pass)
    /\ [][res'.op = "restart" => UNCHANGED <<users, courses, lessons, topics>>]_vars
    /\ [][(res.op = "restart" /\ res'.op = "getProfile" /\ Len(res'.hdr) >= 2
             /\ TokenOf(res'.hdr) \in res.body /\ TokenOf(res'.hdr).sig = "ok"
             /\ now < TokenOf(res'.hdr).exp /\ \E u \in users : u.id = TokenOf(res'.hdr).id) =>
                res'.status = 200]_vars

\* the plain user's token, revoked by a logout and not yet expired, was on
\* the store when the process stopped, and the gate lets it through now
C20_Witness ==
    /\ res.op = "restart"
    /\ \E t \in res.body :
          /\ t = StudentToken
          /\ now < t.exp
          /\ \E u \in users : u.id = t.id
          /\ authenticateToken(<<"Bearer", t>>).pass

\* a topic is listed when the lesson its lessonId names holds its id
Listed(t) == \E l \in lessons : l.id = t.lessonId /\ t.id \in Range(l.topics)

\* the topics whose creation is between its two writes
PendingIds == {p.topic.id : p \in inflight}

\* the requests a stop of the process interrupted, when it just happened
Interrupted == IF res.op = "restart" THEN res.req ELSE {}

\* C21 as stated: after the process stopped between the two writes of a topic
\* creation, the state holds the Topic, unlisted by the lesson its lessonId
\* names, and no later operation makes that lesson list it.
C21_OrphanNeverRepaired ==
    [][\A p \in Interrupted :
          (p.topic \in topics /\ ~Listed(p.topic)) =>
              \A t \in topics' : t.id = p.topic.id => ~Listed(t)']_vars

\* C21 as amended: the first write leaves the Topic stored and unlisted; a
\* stop of the process drops the pending second write and changes no
\* document, and nothing resumes it: a Topic with no creation in flight
\* becomes listed only by a later PUT /lessons/:id or PUT /admin/topics/:id.
C21_OrphanUntilRewritten ==
    /\ [][\A p \in inflight' \ inflight :
             p.topic \in topics' /\ ~Listed(p.topic)']_vars
    /\ [][res'.op = "restart" =>
             /\ inflight' = {}
             /\ UNCHANGED <<topics, lessons>>
             /\ res'.req = inflight]_vars
    /\ [][\A t \in topics :
             (/\ t.id \notin PendingIds
              /\ ~Listed(t)
              /\ \E t2 \in topics' : t2.id = t.id /\ Listed(t2)') =>
                 res'.op \in {"updateLesson", "updateTopic"}]_vars

\* the process stopped between the two writes: the Topic is stored, its
\* lesson is stored and does not list it, and no creation is in flight
C21_Witness ==
    /\ res.op = "restart"
    /\ inflight = {}
    /\ \E p \in res.req :
          /\ p.topic \in topics
          /\ findLesson(p.topic.lessonId) # NoneRec
          /\ ~Listed(p.topic)

\* C22: in every state reached by completed requests, every id in a stored
\* lesson's topics array is the id of a stored Topic whose lessonId is that
\* lesson, and every stored Topic is listed by the lesson its lessonId names.
C22_ReferentialIntegrity ==
    /\ \A l \in lessons : \A i \in Range(l.topics) :
          \E t \in topics : t.id = i /\ t.lessonId = l.id
    /\ \A t \in topics : Listed(t)

\* the correctly signed tokens in circulation that pass the authenticate stage
Authenticated == {t \in tokens : authenticateToken(<<"Bearer", t>>).pass}

\* the role stored for the subject of a token
StoredRole(t) == findById(t.id).role

\* C23: the authorize stage decides by the role stored on the user the
\* token's subject id resolves to, never by the token's role claim: two
\* signed tokens of the same user that differ in their role claim are
\* answered alike by the gate of every route, and an admin-only route
\* answers 200 exactly when the stored role is admin.
C23_StoredRoleDecides ==
    /\ \A t1, t2 \in Authenticated :
          t1.id = t2.id =>
              \A r \in RoleSets \cup {{}} :
                  Gate(<<"Bearer", t1>>, r) = Gate(<<"Bearer", t2>>, r)
    /\ \A t \in Authenticated : \A r \in RoleSets :
          Gate(<<"Bearer", t>>, r).pass <=> StoredRole(t) \in r
    /\ (res.op \in {"getAllUsers", "authorizeRoles"} /\ Len(res.hdr) >= 2
          /\ TokenOf(res.hdr) \in Authenticated) =>
             /\ res.status \in {0, 200} <=> StoredRole(TokenOf(res.hdr)) = "admin"
             /\ res.status \notin {0, 200} =>
                   res.status = 403 /\ res.msg = "Access denied. Insufficient permissions."

\* a signed token that claims the role admin, for a user stored as a plain
\* user, is refused on an admin-only route
C23_Witness ==
    /\ res.op = "getAllUsers"
    /\ res.status = 403
    /\ res.msg = "Access denied. Insufficient permissions."
    /\ Len(res.hdr) >= 2
    /\ TokenOf(res.hdr).role = "admin"
    /\ TokenOf(res.hdr).sig = "ok"
    /\ StoredRole(TokenOf(res.hdr)) = "user"

\* C24: a signup stores the role its body supplies, and 'user' when it
\* supplies none; a signup with role 'admin' and an email that is not stored,
\* made without any token, creates an admin, and the token the response
\* carries passes the gate of the admin-only routes.
C24_SignupStoresRole ==
    /\ (res.op = "signup" /\ res.status = 201) =>
          /\ \E u \in users :
                /\ u.id = res.body.user.id
                /\ u.email = res.req.email
                /\ u.role = IF res.req.role = Undefined THEN "user" ELSE res.req.role
          /\ (res.req.role = "admin" /\ res.body.token # NoneRec) =>
                /\ res.body.token.role = "admin"
                /\ \A r \in RoleSets : Gate(<<"Bearer", res.body.token>>, r).pass
    /\ (res.op \in {"createUser", "getAllUsers"} /\ Len(res.hdr) >= 2
          /\ TokenOf(res.hdr) \in tokens /\ StoredRole(TokenOf(res.hdr)) = "admin") =>
             res.status \notin {401, 403, 404}

\* a signup with role 'admin' was answered 201 with a token that the
\* admin-only gate lets through
C24_Witness ==
    /\ res.op = "signup"
    /\ res.status = 201
    /\ res.hdr = <<>>
    /\ res.req.role = "admin"
    /\ res.body.token # NoneRec
    /\ Gate(<<"Bearer", res.body.token>>, {"admin"}).pass
    /\ \E u \in users : u.email = res.req.email /\ u.role = "admin"

\* the admin a signup created lists the users with the token of the signup
C24_AdminRouteReached ==
    /\ res.op = "getAllUsers"
    /\ res.status = 200
    /\ TokenOf(res.hdr) \in tokens
    /\ TokenOf(res.hdr).role = "admin"
====
